---- MODULE Spec2Model ----
(***************************************************************************)
(* Model of backend/HexaBill.Api/fix_migrations.py: a script that makes    *)
(* sure the "__EFMigrationsHistory" table holds a row for every migration  *)
(* of a fixed list.  One process, strictly sequential; every statement     *)
(* that can raise is a step of its own.                                    *)
(*                                                                         *)
(* The table is the function `ledger` (MigrationId -> ProductVersion) of   *)
(* the committed rows; the rows the open connection has inserted and not   *)
(* yet committed are `pending`.  sqlite3 opens a transaction implicitly at *)
(* the first INSERT and keeps it until conn.commit(); a process that ends  *)
(* without a successful commit loses the pending rows.                     *)
(***************************************************************************)
EXTENDS Integers, Sequences, FiniteSets, TLC

\* ------------------------------------------------------------------ bounds
\* Longest list of migrations the model enumerates.
MaxCat == 2
\* Number of times the script is run in a row on the same database file.
MaxRuns == 2
\* Number of rows another process commits to the table during one run.
MaxOther == 1

\* ------------------------------------------------------------- data values
\* The migration identifiers: the two of the script's list.
Ids == {"20260218024142_AddExpenseRouteId",
        "20260219062317_AddDamageCategoriesAndReturnExtensions"}

\* Product versions: the one the script writes, and another one a row that is
\* already in the table may carry.
Tags == {"9.0.0", "8.0.0"}

Records == [id : Ids, tag : Tags]

\* The list of the script as written.
migrations ==
    << [id |-> "20260218024142_AddExpenseRouteId", tag |-> "9.0.0"],
       [id |-> "20260219062317_AddDamageCategoriesAndReturnExtensions", tag |-> "9.0.0"] >>

\* Every list the model runs the loop on (the script's own list is one of them).
Catalogs == UNION { [1..n -> Records] : n \in 0..MaxCat }

\* Every content of the history table: MigrationId is its primary key.
Ledgers == UNION { [S -> Tags] : S \in SUBSET Ids }

EmptyLedger == [x \in {} |-> "9.0.0"]

\* The table before the first run: any set of the identifiers, in rows written
\* by an earlier product version (the runs themselves add rows of either
\* version, so the later runs start from tables that mix both).
InitialLedgers == UNION { [S -> {"8.0.0"}] : S \in SUBSET Ids }

VARIABLES
    storageExists,  \* os.path.exists(db_path)
    catalog,        \* migrations
    ledger,         \* committed rows of "__EFMigrationsHistory"
    pending,        \* rows inserted by the open connection, not committed
    conn,           \* "none" | "open" | "closed"
    pc,             \* position of the script
    i,              \* index of the loop's current entry (1-based)
    exists,         \* result of cursor.fetchone() for the current entry
    outcome,        \* what happened to the current entry, before its print
    out,            \* the lines printed by this run
    ops,            \* the statements issued on the database by this run
    exitStatus,     \* -1 while running, then the process's exit status
    run,            \* number of this run
    ledger0,        \* committed rows when this run started
    prev,           \* whether the previous run committed, had a failed entry, inserted a row
    others          \* rows committed by another process while this run's connection is open

vars == << storageExists, catalog, ledger, pending, conn, pc, i, exists, outcome,
           out, ops, exitStatus, run, ledger0, prev, others >>

\* --------------------------------------------------------------- operators
\* View, were a SELECT to see the committed rows only.
ViewCommittedOnly == ledger

\* What the connection's SELECT sees: the committed rows and its own inserts.
View == pending @@ ledger

\* Found, were the SELECT to match no row whatever the table holds.
FoundNever(t, ident) == FALSE

\* cursor.execute('SELECT 1 ... WHERE "MigrationId" = ?'); cursor.fetchone()
Found(t, ident) == ident \in DOMAIN t

\* InsertResults, were the table to have no primary key on MigrationId.
InsertResultsNoKey(t, ident) == {"ok", "QueryError"}

\* The results an INSERT of `ident` can have on the table t: the primary key
\* rejects a second row with the same MigrationId.
InsertResults(t, ident) ==
    IF ident \in DOMAIN t THEN {"ConstraintViolation", "QueryError"}
                          ELSE {"ok", "QueryError"}

\* InsertRow, were the ProductVersion written a fixed one and not the entry's.
InsertRowFixedVersion(p, rec) == (rec.id :> "9.0.0") @@ p

\* InsertRow, were the INSERT to report success and write nothing.
InsertRowDropped(p, rec) == p

\* The rows of the open transaction after a successful INSERT of rec.
InsertRow(p, rec) == (rec.id :> rec.tag) @@ p

\* LoopPc, were the loop to stop one entry short.
LoopPcShort(j) == IF j < Len(catalog) THEN "select" ELSE "commit"

\* for migration_id, product_version in migrations: the next entry, or the
\* statement after the loop.
LoopPc(j) == IF j <= Len(catalog) THEN "select" ELSE "commit"

Line(kind, ident) == [kind |-> kind, id |-> ident]

Op(name, idx, res) == [op |-> name, idx |-> idx, res |-> res]

\* The number of lines of kind `kind` in the output o.
Count(o, kind) == Cardinality({ k \in 1..Len(o) : o[k].kind = kind })

\* What a run that printed o did, as the next run's `prev`.
Summary(o) ==
    [ committed |-> Count(o, "Completed") > 0,
      failed    |-> Count(o, "Failed") > 0,
      inserted  |-> Count(o, "Inserted") > 0 ]

NoRun == [ committed |-> FALSE, failed |-> FALSE, inserted |-> FALSE ]

\* ------------------------------------------------------------------- Init
Init ==
    /\ storageExists \in BOOLEAN
    /\ catalog \in Catalogs
    /\ ledger \in InitialLedgers
    /\ pending = EmptyLedger
    /\ conn = "none"
    /\ pc = "start"
    /\ i = 1
    /\ exists = FALSE
    /\ outcome = "None"
    /\ out = << >>
    /\ ops = << >>
    /\ exitStatus = -1
    /\ run = 1
    /\ ledger0 = ledger
    /\ prev = NoRun
    /\ others = EmptyLedger

\* ---------------------------------------------------------------- actions
\* CheckStorage, were the exit(1) missing after the print.
CheckStorageNoExit ==
    /\ pc = "start"
    /\ IF storageExists
       THEN UNCHANGED out
       ELSE out' = Append(out, Line("MissingStorage", "-"))
    /\ pc' = "connect"
    /\ UNCHANGED << storageExists, catalog, ledger, pending, conn, i, exists,
                    outcome, ops, exitStatus, run, ledger0, prev, others >>

\* if not os.path.exists(db_path): print(...); exit(1)
CheckStorage ==
    /\ pc = "start"
    /\ IF storageExists
       THEN /\ pc' = "connect"
            /\ UNCHANGED << out, exitStatus >>
       ELSE /\ out' = Append(out, Line("MissingStorage", "-"))
            /\ exitStatus' = 1
            /\ pc' = "done"
    /\ UNCHANGED << storageExists, catalog, ledger, pending, conn, i, exists,
                    outcome, ops, run, ledger0, prev, others >>

\* conn = sqlite3.connect(db_path); cursor = conn.cursor(); print("Checking ...")
\* A failure is caught by the outer except, which prints and lets the script end.
Connect ==
    /\ pc = "connect"
    /\ \E ok \in BOOLEAN :
         IF ok
         THEN /\ conn' = "open"
              /\ ops' = Append(ops, Op("connect", 0, "ok"))
              /\ out' = Append(out, Line("Checking", "-"))
              /\ i' = 1
              /\ pc' = LoopPc(1)
              /\ UNCHANGED exitStatus
         ELSE /\ ops' = Append(ops, Op("connect", 0, "ConnectionError"))
              /\ out' = Append(out, Line("FatalError", "-"))
              /\ exitStatus' = 0
              /\ pc' = "done"
              /\ UNCHANGED << conn, i >>
    /\ UNCHANGED << storageExists, catalog, ledger, pending, exists, outcome,
                    run, ledger0, prev, others >>

\* Select, were an exception of the SELECT swallowed on the spot: the script
\* goes on to the INSERT as if no row had been found.
SelectFallThrough ==
    /\ pc = "select"
    /\ \E ok \in BOOLEAN :
         IF ok
         THEN /\ exists' = Found(View, catalog[i].id)
              /\ ops' = Append(ops, Op("exists", i,
                                       IF Found(View, catalog[i].id) THEN "true" ELSE "false"))
         ELSE /\ ops' = Append(ops, Op("exists", i, "QueryError"))
              /\ exists' = FALSE
    /\ pc' = "branch"
    /\ UNCHANGED << storageExists, catalog, ledger, pending, conn, i, out, outcome,
                    exitStatus, run, ledger0, prev, others >>

\* cursor.execute('SELECT 1 FROM ... WHERE "MigrationId" = ?'); exists = cursor.fetchone()
\* An exception goes to the entry's own except.
Select ==
    /\ pc = "select"
    /\ \E ok \in BOOLEAN :
         IF ok
         THEN /\ exists' = Found(View, catalog[i].id)
              /\ ops' = Append(ops, Op("exists", i,
                                       IF Found(View, catalog[i].id) THEN "true" ELSE "false"))
              /\ pc' = "branch"
              /\ UNCHANGED outcome
         ELSE /\ ops' = Append(ops, Op("exists", i, "QueryError"))
              /\ outcome' = "Failed"
              /\ pc' = "report"
              /\ UNCHANGED exists
    /\ UNCHANGED << storageExists, catalog, ledger, pending, conn, i, out,
                    exitStatus, run, ledger0, prev, others >>

\* Branch, were an existing row brought to the list's ProductVersion.
BranchUpsert ==
    /\ pc = "branch"
    /\ IF exists
       THEN /\ outcome' = "AlreadyRecorded"
            /\ pending' = InsertRow(pending, catalog[i])
            /\ UNCHANGED ops
       ELSE \E r \in InsertResults(View, catalog[i].id) :
              /\ ops' = Append(ops, Op("insert", i, r))
              /\ IF r = "ok"
                 THEN /\ pending' = InsertRow(pending, catalog[i])
                      /\ outcome' = "Inserted"
                 ELSE /\ outcome' = "Failed"
                      /\ UNCHANGED pending
    /\ pc' = "report"
    /\ UNCHANGED << storageExists, catalog, ledger, conn, i, exists, out,
                    exitStatus, run, ledger0, prev, others >>

\* Branch, were the connection in autocommit mode: a successful INSERT is
\* committed at once.
BranchAutocommit ==
    /\ pc = "branch"
    /\ IF exists
       THEN /\ outcome' = "AlreadyRecorded"
            /\ UNCHANGED << ledger, ops >>
       ELSE \E r \in InsertResults(View, catalog[i].id) :
              /\ ops' = Append(ops, Op("insert", i, r))
              /\ IF r = "ok"
                 THEN /\ ledger' = InsertRow(ledger, catalog[i])
                      /\ outcome' = "Inserted"
                 ELSE /\ outcome' = "Failed"
                      /\ UNCHANGED ledger
    /\ pc' = "report"
    /\ UNCHANGED << storageExists, catalog, pending, conn, i, exists, out,
                    exitStatus, run, ledger0, prev, others >>

\* Branch, were the two prints exchanged: a row that was found is reported
\* as inserted.
BranchMislabel ==
    /\ pc = "branch"
    /\ IF exists
       THEN /\ outcome' = "Inserted"
            /\ UNCHANGED << pending, ops >>
       ELSE \E r \in InsertResults(View, catalog[i].id) :
              /\ ops' = Append(ops, Op("insert", i, r))
              /\ IF r = "ok"
                 THEN /\ pending' = InsertRow(pending, catalog[i])
                      /\ outcome' = "Inserted"
                 ELSE /\ outcome' = "Failed"
                      /\ UNCHANGED pending
    /\ pc' = "report"
    /\ UNCHANGED << storageExists, catalog, ledger, conn, i, exists, out,
                    exitStatus, run, ledger0, prev, others >>

\* if exists: ... else: cursor.execute('INSERT INTO ... VALUES (?, ?)')
Branch ==
    /\ pc = "branch"
    /\ IF exists
       THEN /\ outcome' = "AlreadyRecorded"
            /\ UNCHANGED << pending, ops >>
       ELSE \E r \in InsertResults(View, catalog[i].id) :
              /\ ops' = Append(ops, Op("insert", i, r))
              /\ IF r = "ok"
                 THEN /\ pending' = InsertRow(pending, catalog[i])
                      /\ outcome' = "Inserted"
                 ELSE /\ outcome' = "Failed"
                      /\ UNCHANGED pending
    /\ pc' = "report"
    /\ UNCHANGED << storageExists, catalog, ledger, conn, i, exists, out,
                    exitStatus, run, ledger0, prev, others >>

\* Report, were an entry's error to end the loop.
ReportAbort ==
    /\ pc = "report"
    /\ out' = Append(out, Line(outcome, catalog[i].id))
    /\ outcome' = "None"
    /\ i' = i + 1
    /\ pc' = IF outcome = "Failed" THEN "commit" ELSE LoopPc(i + 1)
    /\ UNCHANGED << storageExists, catalog, ledger, pending, conn, exists, ops,
                    exitStatus, run, ledger0, prev, others >>

\* Report, were the line to name the entry before the current one.
ReportStale ==
    /\ pc = "report"
    /\ out' = Append(out, Line(outcome, catalog[IF i > 1 THEN i - 1 ELSE i].id))
    /\ outcome' = "None"
    /\ i' = i + 1
    /\ pc' = LoopPc(i + 1)
    /\ UNCHANGED << storageExists, catalog, ledger, pending, conn, exists, ops,
                    exitStatus, run, ledger0, prev, others >>

\* The entry's print (already exists / Inserted / Error processing), then the
\* loop goes to the next entry.
Report ==
    /\ pc = "report"
    /\ out' = Append(out, Line(outcome, catalog[i].id))
    /\ outcome' = "None"
    /\ i' = i + 1
    /\ pc' = LoopPc(i + 1)
    /\ UNCHANGED << storageExists, catalog, ledger, pending, conn, exists, ops,
                    exitStatus, run, ledger0, prev, others >>

\* Commit, were the completion line printed before conn.commit() is called.
CommitAnnounceEarly ==
    /\ pc = "commit"
    /\ \E ok \in BOOLEAN :
         IF ok
         THEN /\ ledger' = View
              /\ ops' = Append(ops, Op("commit", 0, "ok"))
              /\ out' = Append(out, Line("Completed", "-"))
              /\ pc' = "close"
              /\ UNCHANGED exitStatus
         ELSE /\ ops' = Append(ops, Op("commit", 0, "CommitError"))
              /\ out' = Append(Append(out, Line("Completed", "-")), Line("FatalError", "-"))
              /\ exitStatus' = 0
              /\ pc' = "done"
              /\ UNCHANGED ledger
    /\ pending' = EmptyLedger
    /\ UNCHANGED << storageExists, catalog, conn, i, exists, outcome, run,
                    ledger0, prev, others >>

\* Commit, were the commit left out after an entry failed.
CommitSkipOnFailure ==
    /\ pc = "commit"
    /\ IF Count(out, "Failed") > 0
       THEN /\ pc' = "close"
            /\ UNCHANGED << ledger, ops, out, exitStatus >>
       ELSE \E ok \in BOOLEAN :
              IF ok
              THEN /\ ledger' = View
                   /\ ops' = Append(ops, Op("commit", 0, "ok"))
                   /\ out' = Append(out, Line("Completed", "-"))
                   /\ pc' = "close"
                   /\ UNCHANGED exitStatus
              ELSE /\ ops' = Append(ops, Op("commit", 0, "CommitError"))
                   /\ out' = Append(out, Line("FatalError", "-"))
                   /\ exitStatus' = 0
                   /\ pc' = "done"
                   /\ UNCHANGED ledger
    /\ pending' = EmptyLedger
    /\ UNCHANGED << storageExists, catalog, conn, i, exists, outcome, run,
                    ledger0, prev, others >>

\* conn.commit(); print("Migration history update completed.")
\* A failure is caught by the outer except: the script prints and ends, the
\* connection is not closed and the open transaction is lost with the process.
Commit ==
    /\ pc = "commit"
    /\ \E ok \in BOOLEAN :
         IF ok
         THEN /\ ledger' = View
              /\ ops' = Append(ops, Op("commit", 0, "ok"))
              /\ out' = Append(out, Line("Completed", "-"))
              /\ pc' = "close"
              /\ UNCHANGED exitStatus
         ELSE /\ ops' = Append(ops, Op("commit", 0, "CommitError"))
              /\ out' = Append(out, Line("FatalError", "-"))
              /\ exitStatus' = 0
              /\ pc' = "done"
              /\ UNCHANGED ledger
    /\ pending' = EmptyLedger
    /\ UNCHANGED << storageExists, catalog, conn, i, exists, outcome, run,
                    ledger0, prev, others >>

\* conn.close(), and the script ends.
Close ==
    /\ pc = "close"
    /\ conn' = "closed"
    /\ ops' = Append(ops, Op("close", 0, "ok"))
    /\ exitStatus' = 0
    /\ pc' = "done"
    /\ UNCHANGED << storageExists, catalog, ledger, pending, i, exists, outcome,
                    out, run, ledger0, prev, others >>

\* The operator runs the script again on the same database file.
Relaunch ==
    /\ pc = "done"
    /\ run < MaxRuns
    /\ run' = run + 1
    /\ prev' = Summary(out)
    /\ ledger0' = ledger
    /\ pending' = EmptyLedger
    /\ conn' = "none"
    /\ pc' = "start"
    /\ i' = 1
    /\ exists' = FALSE
    /\ outcome' = "None"
    /\ out' = << >>
    /\ ops' = << >>
    /\ exitStatus' = -1
    /\ others' = EmptyLedger
    /\ UNCHANGED << storageExists, catalog, ledger >>

Next ==
    \/ CheckStorage
    \/ Connect
    \/ Select
    \/ Branch
    \/ Report
    \/ Commit
    \/ Close
    \/ Relaunch

Spec == Init /\ [][Next]_vars

\* One run of the script, from its first statement to its end.  The script
\* is one sequential process and none of its statements waits for anything
\* in the model, so a run that can take a step eventually takes one.
NextRun ==
    \/ CheckStorage
    \/ Connect
    \/ Select
    \/ Branch
    \/ Report
    \/ Commit
    \/ Close

SpecRun == Init /\ [][NextRun]_vars /\ WF_vars(NextRun)

\* Another process commits a row to the same table while the script's
\* connection is open.  The script does nothing to keep others out; sqlite
\* admits one writer at a time, so the other process can commit only while
\* the script's connection holds no uncommitted INSERT, and the primary key
\* lets it add only a MigrationId the table does not have.
Writer ==
    /\ conn = "open"
    /\ pc \in {"select", "branch", "report", "commit"}
    /\ pending = EmptyLedger
    /\ Cardinality(DOMAIN others) < MaxOther
    /\ \E x \in Ids \ DOMAIN ledger : \E t \in Tags :
         /\ ledger' = (x :> t) @@ ledger
         /\ others' = (x :> t) @@ others
    /\ UNCHANGED << storageExists, catalog, pending, conn, pc, i, exists, outcome,
                    out, ops, exitStatus, run, ledger0, prev >>

\* One run of the script beside another process that writes to the table.
NextRace ==
    \/ CheckStorage
    \/ Connect
    \/ Select
    \/ Branch
    \/ Report
    \/ Commit
    \/ Close
    \/ Writer

SpecRace == Init /\ [][NextRace]_vars

TypeOK ==
    /\ storageExists \in BOOLEAN
    /\ catalog \in Catalogs
    /\ ledger \in Ledgers
    /\ pending \in Ledgers
    /\ conn \in {"none", "open", "closed"}
    /\ pc \in {"start", "connect", "select", "branch", "report", "commit", "close", "done"}
    /\ i \in 1..(Len(catalog) + 1)
    /\ exists \in BOOLEAN
    /\ outcome \in {"None", "AlreadyRecorded", "Inserted", "Failed"}
    /\ exitStatus \in {-1, 0, 1}
    /\ run \in 1..MaxRuns
    /\ ledger0 \in Ledgers
    /\ prev \in [committed : BOOLEAN, failed : BOOLEAN, inserted : BOOLEAN]
    /\ others \in Ledgers

\* ------------------------------------------------ what a run has done so far
\* The statements of kind `name` issued for entry k, as positions of ops.
OpsOf(name, k) == { n \in 1..Len(ops) : ops[n].op = name /\ ops[n].idx = k }

\* conn.commit() has returned in this run.
Committed == \E n \in 1..Len(ops) : ops[n].op = "commit" /\ ops[n].res = "ok"

\* An INSERT of this run succeeded.
SomeInsertOk == \E n \in 1..Len(ops) : ops[n].op = "insert" /\ ops[n].res = "ok"

\* An INSERT was issued in this run, whatever its result.
SomeInsertIssued == \E n \in 1..Len(ops) : ops[n].op = "insert"

\* The INSERT of entry k raised.
InsertFailed(k) == \E n \in OpsOf("insert", k) : ops[n].res # "ok"

\* The SELECT of entry k raised.
SelectFailed(k) == \E n \in OpsOf("exists", k) : ops[n].res = "QueryError"

\* The number of entries whose line has been printed: the lines that name a
\* MigrationId (the first line of a run that connected is the "Checking
\* migrations" line, which names none).
Reported == Cardinality({ k \in 1..Len(out) : out[k].id # "-" })

\* The kind of the line printed for entry k, "None" until it is printed.
OutcomeOf(k) == IF k + 1 <= Len(out) THEN out[k + 1].kind ELSE "None"

\* The loop has been left (the script is at conn.commit() or beyond it).
LoopOver == conn # "none" /\ pc \in {"commit", "close", "done"}

\* ----------------------------------------------------------------- claims

C2_NoOverwriteNoDelete ==
    LET v == View
    IN  /\ \A x \in DOMAIN ledger0 :
             /\ x \in DOMAIN ledger /\ ledger[x] = ledger0[x]
             /\ x \in DOMAIN v /\ v[x] = ledger0[x]
        /\ \A x \in (DOMAIN v \cup DOMAIN ledger) \ DOMAIN ledger0 :
             \E n \in 1..Len(ops) :
                /\ ops[n].op = "insert" /\ ops[n].res = "ok"
                /\ catalog[ops[n].idx].id = x

\* A run has committed an insert while its list names, with another
\* ProductVersion, a MigrationId that was already in the table, and an entry failed.
C2_Witness ==
    /\ pc = "done"
    /\ Committed
    /\ ledger # ledger0
    /\ Count(out, "Failed") > 0
    /\ \E k \in 1..Len(catalog) :
         /\ catalog[k].id \in DOMAIN ledger0
         /\ catalog[k].tag # ledger0[catalog[k].id]

\* C3 (as stated): after conn.commit() has succeeded, the table has a row for
\* every entry whose INSERT did not fail.
C3_CompleteUnlessInsertFailed ==
    Committed =>
        \A k \in 1..Len(catalog) : ~InsertFailed(k) => catalog[k].id \in DOMAIN ledger

\* C3 (amended): after conn.commit() has succeeded, the table has a row for
\* every entry of which neither the SELECT nor the INSERT failed.
C3_CompleteUnlessEntryFailed ==
    Committed =>
        \A k \in 1..Len(catalog) :
            (~SelectFailed(k) /\ ~InsertFailed(k)) => catalog[k].id \in DOMAIN ledger

\* A run has committed the row of its second entry after the INSERT of its
\* first entry, for another MigrationId, failed.
C3_Witness ==
    /\ Committed
    /\ Len(catalog) = 2
    /\ catalog[1].id # catalog[2].id
    /\ InsertFailed(1)
    /\ OutcomeOf(2) = "Inserted"
    /\ catalog[2].id \in DOMAIN ledger
    /\ catalog[2].id \notin DOMAIN ledger0

IsExistsOp(o) == o.op = "exists"
ExistsOps == SelectSeq(ops, IsExistsOp)

\* C5: as soon as a SELECT or an INSERT has failed, the script is still in its
\* loop or has left it normally: then every entry of the list has had its one
\* SELECT, in list order, and, where that returned no row, its INSERT right
\* after it, and the commit follows; the script never ends on a per-entry error.
C5_FailureIsolation ==
    \A b \in 1..Len(catalog) :
        (SelectFailed(b) \/ InsertFailed(b)) =>
            \/ /\ pc \in {"select", "branch", "report"}
               /\ i >= b
               /\ (i = b => pc = "report")
            \/ /\ LoopOver
               /\ pc = "done" => \E n \in 1..Len(ops) : ops[n].op = "commit"
               /\ Len(ExistsOps) = Len(catalog)
               /\ \A c \in 1..Len(ExistsOps) : ExistsOps[c].idx = c
               /\ \A n \in 1..Len(ops) :
                    (ops[n].op = "exists" /\ ops[n].res = "false") =>
                        /\ n < Len(ops)
                        /\ ops[n + 1].op = "insert"
                        /\ ops[n + 1].idx = ops[n].idx

\* The INSERT of the first entry failed and the second entry, listed after it,
\* was checked and inserted.
C5_Witness ==
    /\ pc = "done"
    /\ Len(catalog) = 2
    /\ InsertFailed(1)
    /\ \E n \in OpsOf("exists", 2) : ops[n].res = "false"
    /\ \E n \in OpsOf("insert", 2) : ops[n].res = "ok"

\* C6: when the database file does not exist, the script only prints its error
\* and exits with status 1: it never connects, issues no statement, and the
\* table stays as it was.
C6_MissingStorageHalts ==
    ~storageExists =>
        /\ pc \in {"start", "done"}
        /\ conn = "none"
        /\ ops = << >>
        /\ pending = EmptyLedger
        /\ ledger = ledger0
        /\ pc = "done" => (exitStatus = 1 /\ out = << Line("MissingStorage", "-") >>)

\* The script has exited with status 1 on a missing database file, with a
\* list that is not empty.
C6_Witness ==
    /\ ~storageExists
    /\ pc = "done"
    /\ exitStatus = 1
    /\ Len(catalog) > 0

\* The positions of ops at which conn.commit() was called.
CommitOps == { n \in 1..Len(ops) : ops[n].op = "commit" }

\* C7: a run that connected calls conn.commit() exactly once by the time it
\* ends, never while the loop is running: only after every entry's line has
\* been printed and after the last SELECT and INSERT, however many entries
\* failed.
C7_SingleTrailingCommit ==
    /\ Cardinality(CommitOps) <= 1
    /\ pc \in {"start", "connect", "select", "branch", "report", "commit"} => CommitOps = {}
    /\ (conn # "none" /\ pc \in {"close", "done"}) => Cardinality(CommitOps) = 1
    /\ \A n \in CommitOps :
         /\ Reported = Len(catalog)
         /\ \A m \in 1..Len(ops) : ops[m].op \in {"exists", "insert"} => m < n

\* A run over two entries, one of which failed, has ended after its commit.
C7_Witness ==
    /\ pc = "done"
    /\ Len(catalog) = 2
    /\ Count(out, "Failed") = 1
    /\ Count(out, "Inserted") = 1
    /\ Cardinality(CommitOps) = 1

\* What the statements issued for entry k say its outcome is.
ActualOutcome(k) ==
    IF SelectFailed(k) \/ InsertFailed(k) THEN "Failed"
    ELSE IF \E n \in OpsOf("exists", k) : ops[n].res = "true" THEN "AlreadyRecorded"
    ELSE IF \E n \in OpsOf("insert", k) : ops[n].res = "ok" THEN "Inserted"
    ELSE "None"

\* C8: the k-th entry line printed names the k-th entry of the list and tells
\* what happened to it; the SELECTs are issued in list order, one per entry;
\* an entry is checked only when the lines of all entries before it have been
\* printed; and once the loop is left there is one line per entry.
C8_Ordering ==
    LET r == Reported
        e == ExistsOps
    IN  /\ r <= Len(catalog)
        /\ \A k \in 1..r :
             /\ out[k + 1].id = catalog[k].id
             /\ out[k + 1].kind = ActualOutcome(k)
        /\ \A k \in 1..Len(e) : e[k].idx = k
        /\ Len(e) \in {r, r + 1}
        /\ pc = "select" => (i = r + 1 /\ Len(e) = r)
        /\ LoopOver => r = Len(catalog)

\* A run over two entries with different MigrationIds has printed both lines:
\* the first was already in the table, the second was inserted.
C8_Witness ==
    /\ pc = "done"
    /\ Len(catalog) = 2
    /\ catalog[1].id # catalog[2].id
    /\ OutcomeOf(1) = "AlreadyRecorded"
    /\ OutcomeOf(2) = "Inserted"

\* C9: a run that ended on a fatal error (missing file, connection failure,
\* commit failure) ended with a non-zero exit status and with no connection
\* left open.
C9_FatalNonZeroAfterRelease ==
    (pc = "done" /\ Count(out, "MissingStorage") + Count(out, "FatalError") > 0) =>
        (exitStatus # 0 /\ conn # "open")

\* C10: a run connects at most once, and no run ends with its connection
\* still open.
C10_ScopedRelease ==
    /\ Cardinality(OpsOf("connect", 0)) <= 1
    /\ pc = "done" => conn # "open"

\* The entries before k that name the same MigrationId as entry k.
EarlierSame(k) == { j \in 1..(k - 1) : catalog[j].id = catalog[k].id }

\* The positions of ops at which an INSERT was issued for the MigrationId x.
InsertsOf(x) == { n \in 1..Len(ops) : ops[n].op = "insert" /\ catalog[ops[n].idx].id = x }

CommitFailed == \E n \in 1..Len(ops) : ops[n].op = "commit" /\ ops[n].res = "CommitError"

\* C12: when conn.commit() raises, the script has ended, its last line is the
\* fatal error line and it has printed no completion line, whatever entry
\* lines came before; the completion line is printed once, and only when
\* conn.commit() has returned.
C12_CommitFailureFatal ==
    /\ CommitFailed =>
         /\ pc = "done"
         /\ ~Committed
         /\ out[Len(out)].kind = "FatalError"
         /\ Count(out, "FatalError") = 1
         /\ Count(out, "Completed") = 0
    /\ Count(out, "Completed") > 0 =>
         /\ Committed
         /\ Count(out, "Completed") = 1
         /\ out[Len(out)].kind = "Completed"
         /\ Count(out, "FatalError") = 0

\* conn.commit() has raised after an entry was reported as inserted.
C12_Witness ==
    /\ CommitFailed
    /\ pc = "done"
    /\ Count(out, "Inserted") > 0
    /\ Count(out, "Completed") = 0

\* C13: until conn.commit() has returned, the committed table is the table
\* the run started with: the rows of the INSERTs that succeeded are held by
\* the open transaction only, and no statement between two entries commits
\* them; once conn.commit() has returned they are all in the committed table.
C13_DurableOnlyAtCommit ==
    /\ ~Committed => ledger = ledger0
    /\ \A n \in 1..Len(ops) :
         (ops[n].op = "insert" /\ ops[n].res = "ok") =>
             LET x == catalog[ops[n].idx].id
             IN  /\ (~Committed /\ ~CommitFailed) => (x \in DOMAIN pending /\ x \notin DOMAIN ledger)
                 /\ Committed => (x \in DOMAIN ledger /\ x \notin DOMAIN ledger0)
                 /\ CommitFailed => x \notin DOMAIN ledger

\* The loop has ended with two rows inserted and not yet committed: the
\* committed table is still the one the run started with.
C13_Witness ==
    /\ pc = "commit"
    /\ Count(out, "Inserted") = 2
    /\ DOMAIN pending = Ids
    /\ ledger = ledger0

\* C14: when another process commits a row for a MigrationId while the run is
\* under way, that row stays in the table with its own ProductVersion; every
\* INSERT the script issues for that MigrationId fails, so an entry whose
\* SELECT found no row before the other process wrote it is reported as
\* failed; a constraint violation arises in no other way; the loop still
\* checks every entry and the commit follows; and at no time does the
\* connection hold an uncommitted row for a MigrationId that is committed.
C14_RaceLosesInsert ==
    LET v == View
    IN  /\ \A x \in DOMAIN others :
             /\ x \in DOMAIN ledger /\ ledger[x] = others[x]
             /\ x \in DOMAIN v /\ v[x] = others[x]
        /\ DOMAIN pending \cap DOMAIN ledger = {}
        /\ \A n \in 1..Len(ops) :
             ops[n].op = "insert" =>
                 /\ catalog[ops[n].idx].id \in DOMAIN others => ops[n].res # "ok"
                 /\ ops[n].res = "ConstraintViolation" => catalog[ops[n].idx].id \in DOMAIN others
        /\ \A k \in 1..Reported :
             (catalog[k].id \in DOMAIN others /\ OpsOf("insert", k) # {}) =>
                 OutcomeOf(k) = "Failed"
        /\ LoopOver =>
             /\ Len(ExistsOps) = Len(catalog)
             /\ pc = "done" => CommitOps # {}

\* Another process committed the row of the first entry after the script's
\* SELECT found none: the script's INSERT hit the primary key, the entry was
\* reported as failed, the other process's row is in the table, and the second
\* entry, for another MigrationId, was inserted and committed.
C14_Witness ==
    /\ pc = "done"
    /\ Committed
    /\ Len(catalog) = 2
    /\ catalog[1].id # catalog[2].id
    /\ catalog[1].id \in DOMAIN others
    /\ others[catalog[1].id] # catalog[1].tag
    /\ ledger[catalog[1].id] = others[catalog[1].id]
    /\ \E n \in OpsOf("exists", 1) : ops[n].res = "false"
    /\ \E n \in OpsOf("insert", 1) : ops[n].res = "ConstraintViolation"
    /\ OutcomeOf(1) = "Failed"
    /\ OutcomeOf(2) = "Inserted"

\* Where entry k stands when the script is at position p of the loop with
\* current index j and current outcome o: not yet looked at, checked (its
\* SELECT returned), at one of the three outcomes, or printed.
RecStateAt(k, p, j, o) ==
    IF k < j THEN "Reported"
    ELSE IF k > j THEN "Unknown"
    ELSE IF p = "branch" THEN "Checked"
    ELSE IF p = "report" THEN o
    ELSE "Unknown"

RecState(k) == RecStateAt(k, pc, i, outcome)

Terminal == {"AlreadyRecorded", "Inserted", "Failed"}

\* The outcome entry k has reached, "None" before it reaches one.
TermOf(k) ==
    IF RecState(k) \in Terminal THEN RecState(k)
    ELSE IF RecState(k) = "Reported" THEN OutcomeOf(k)
    ELSE "None"

\* The moves of an entry in the script: its SELECT returns or raises (which
\* takes the entry from Unknown to Failed at once), the branch gives one of
\* the three outcomes, the print follows.
EdgesOfLoop ==
    { <<"Unknown", "Checked">>, <<"Unknown", "Failed">> }
      \cup { <<"Checked", t>> : t \in Terminal }
      \cup { <<t, "Reported">> : t \in Terminal }

\* The moves of the state machine Unknown -> Checked -> outcome -> Reported
\* alone: every outcome is reached from Checked.
EdgesStated == EdgesOfLoop \ { <<"Unknown", "Failed">> }

\* What holds of the outcomes whichever the moves are: already recorded only
\* after a SELECT that returned a row, and then with no INSERT; inserted only
\* after a SELECT that returned none and an INSERT that succeeded.
OutcomesJustified ==
    \A k \in 1..Len(catalog) :
        /\ TermOf(k) = "AlreadyRecorded" =>
             /\ \E n \in OpsOf("exists", k) : ops[n].res = "true"
             /\ OpsOf("insert", k) = {}
        /\ TermOf(k) = "Inserted" =>
             /\ \E n \in OpsOf("exists", k) : ops[n].res = "false"
             /\ \E n \in OpsOf("insert", k) : ops[n].res = "ok"

\* Every step moves every entry along one of the edges or leaves it where it
\* is, and the line printed for an entry tells the outcome it had reached.
MovesAlong(edges) ==
    \A k \in 1..Len(catalog) :
        LET a == RecState(k)
            b == RecStateAt(k, pc', i', outcome')
        IN  /\ a = b \/ <<a, b>> \in edges
            /\ (a \in Terminal /\ b = "Reported") => out'[k + 1].kind = a

\* C15 (as stated): every entry moves only along Unknown -> Checked ->
\* {AlreadyRecorded | Inserted | Failed} -> Reported, never back, with the
\* outcomes justified by what its SELECT and INSERT returned.
C15_StatedMachine == []OutcomesJustified /\ [][MovesAlong(EdgesStated)]_vars

\* C15 (amended): every entry moves only along Unknown -> Checked ->
\* {AlreadyRecorded | Inserted | Failed} -> Reported, or directly from Unknown
\* to Failed when its SELECT raises, never back; already recorded only if the
\* SELECT returned a row (and then no INSERT is issued), inserted only if the
\* SELECT returned none and the INSERT succeeded; the printed line tells the
\* outcome reached, which never changes to another.
C15_LoopMachine == []OutcomesJustified /\ [][MovesAlong(EdgesOfLoop)]_vars

\* Three kinds of entry have been seen in one run: the first entry's SELECT
\* raised and its line is printed, the second was checked and inserted and
\* is about to be printed.
C15_Witness ==
    /\ Len(catalog) = 2
    /\ SelectFailed(1)
    /\ RecState(1) = "Reported"
    /\ OutcomeOf(1) = "Failed"
    /\ RecState(2) = "Inserted"

\* The run is in its loop or at its commit, with the connection open.
Reconciling == conn = "open" /\ pc \in {"select", "branch", "report", "commit"}

\* The run has had its one commit attempt: it returned or it raised, not both.
RunOver ==
    /\ pc \in {"close", "done"}
    /\ Cardinality(CommitOps) = 1
    /\ Committed # CommitFailed

\* Every entry of the list has had one SELECT, in list order, at most one
\* INSERT, and one printed line.
EachEntryOnce ==
    /\ Len(ExistsOps) = Len(catalog)
    /\ \A k \in 1..Len(catalog) :
         /\ ExistsOps[k].idx = k
         /\ Cardinality(OpsOf("insert", k)) <= 1
    /\ Reported = Len(catalog)

\* C16: a run that has connected and is in its loop or at its commit, for any
\* list, the empty one included, and whatever entries fail, eventually is over
\* with conn.commit() either returned or raised, never both; by then every
\* entry has been processed exactly once; and a run that is over stays over,
\* with the same result, and is never in its loop again.
C16_RunTerminates ==
    /\ Reconciling ~> RunOver
    /\ [](RunOver => (EachEntryOnce /\ ~Reconciling))
    /\ [][(RunOver => RunOver') /\ (Committed => Committed') /\ (CommitFailed => CommitFailed')]_vars

\* A run over two entries, one of which failed and one of which was inserted,
\* has ended on a commit that raised.
C16_Witness ==
    /\ pc = "done"
    /\ CommitFailed
    /\ Len(catalog) = 2
    /\ Count(out, "Failed") = 1
    /\ Count(out, "Inserted") = 1
    /\ RunOver

\* C17: an entry whose SELECT raised gets no INSERT and is reported as failed;
\* the rows the connection holds and the committed table owe nothing to it
\* (every row added in the run comes from the successful INSERT of an entry
\* whose SELECT did not raise); and the loop goes on: once it is left every
\* entry has had its SELECT.
C17_SelectFailureIsolated ==
    /\ \A k \in 1..Len(catalog) :
         SelectFailed(k) =>
             /\ OpsOf("insert", k) = {}
             /\ Cardinality(OpsOf("exists", k)) = 1
             /\ TermOf(k) = "Failed"
             /\ pc # "branch" \/ i # k
    /\ \A x \in (DOMAIN pending \cup DOMAIN ledger) \ DOMAIN ledger0 :
         \E n \in 1..Len(ops) :
            /\ ops[n].op = "insert" /\ ops[n].res = "ok"
            /\ catalog[ops[n].idx].id = x
            /\ ~SelectFailed(ops[n].idx)
    /\ (LoopOver /\ \E k \in 1..Len(catalog) : SelectFailed(k)) =>
         /\ Len(ExistsOps) = Len(catalog)
         /\ pc = "done" => CommitOps # {}

\* The SELECT of the first entry raised, for a MigrationId the table does not
\* have: the table still lacks it after the commit, and the second entry, for
\* another MigrationId, was inserted.
C17_Witness ==
    /\ pc = "done"
    /\ Committed
    /\ Len(catalog) = 2
    /\ catalog[1].id # catalog[2].id
    /\ SelectFailed(1)
    /\ OutcomeOf(1) = "Failed"
    /\ catalog[1].id \notin DOMAIN ledger
    /\ OutcomeOf(2) = "Inserted"

\* C18: every row the run has added, staged or committed, for a MigrationId
\* the table did not have carries the ProductVersion of the one entry whose
\* INSERT succeeded for it, and that entry is the first of the list naming the
\* MigrationId that did not fail: after a commit the table maps the
\* MigrationId to that entry's ProductVersion, whatever later entries say.
C18_FirstOccurrenceWins ==
    LET v == View
    IN  \A x \in DOMAIN v \ DOMAIN ledger0 :
            \E n \in InsertsOf(x) :
                /\ ops[n].res = "ok"
                /\ v[x] = catalog[ops[n].idx].tag
                /\ \A j \in EarlierSame(ops[n].idx) : SelectFailed(j) \/ InsertFailed(j)
                /\ \A m \in InsertsOf(x) : m > n => ops[m].res # "ok"

\* The list names one MigrationId twice with two ProductVersions; the INSERT
\* of the first entry failed, that of the second succeeded, and after the
\* commit the table has the row with the second entry's ProductVersion.
C18_Witness ==
    /\ Committed
    /\ Len(catalog) = 2
    /\ catalog[1].id = catalog[2].id
    /\ catalog[1].tag # catalog[2].tag
    /\ catalog[1].id \notin DOMAIN ledger0
    /\ InsertFailed(1)
    /\ OutcomeOf(2) = "Inserted"
    /\ ledger[catalog[2].id] = catalog[2].tag

====
